---- MODULE Spec2Model ----
(***************************************************************************)
(* State-machine model of buzz_uploader/app.py: the file browser's         *)
(* selection list (BuzzUploaderApp.selected_files), the rendered file      *)
(* table, and the sequential upload pipeline of UploadProgressScreen.      *)
(*                                                                         *)
(* A path is a sequence of names, a name is a sequence of characters, so   *)
(* that the row label built by FileItem.__str__ and parsed back by         *)
(* cell_content[2:].strip() is computed and not assumed to round-trip.     *)
(* FileItem objects live in the heap `items`; lists hold object ids, so    *)
(* that the selection and the upload queues share objects as in Python.    *)
(***************************************************************************)
EXTENDS Integers, Sequences, FiniteSets, TLC

VARIABLES exists, current_dir, table, focus, deferred, items,
          selected_files, runs, inbox, last_notify, config, settings

vars == <<exists, current_dir, table, focus, deferred, items,
          selected_files, runs, inbox, last_notify, config, settings>>

\* Most call_after_refresh callbacks queued at one time.
MaxDeferred == 1

----------------------------------------------------------------------------
\* Characters, names and paths

EmojiDir == "[dir-emoji]"

EmojiFile == "[file-emoji]"

nm_h == <<"h">>

nm_d == <<"d">>

nm_L == <<"L">>

nm_a == <<"a">>

nm_b == <<"b">>

nm_c == <<"c">>

nm_cs == <<"c", " ">>

\* Code point of a character (str comparison in list.sort).
Ord(ch) ==
    CASE ch = " " -> 32
      [] ch = "." -> 46
      [] ch = "A" -> 65
      [] ch = "C" -> 67
      [] ch = "L" -> 76
      [] ch = "a" -> 97
      [] ch = "b" -> 98
      [] ch = "c" -> 99
      [] ch = "d" -> 100
      [] ch = "h" -> 104
      [] ch = "l" -> 108
      [] OTHER -> 0

\* str.lower() on one character.
Lower(ch) ==
    CASE ch = "A" -> "a"
      [] ch = "C" -> "c"
      [] ch = "L" -> "l"
      [] OTHER -> ch

LowerStr(s) == [i \in 1..Len(s) |-> Lower(s[i])]

RECURSIVE StrLess(_, _)
StrLess(s, t) ==
    IF t = <<>> THEN FALSE
    ELSE IF s = <<>> THEN TRUE
    ELSE IF Ord(s[1]) # Ord(t[1]) THEN Ord(s[1]) < Ord(t[1])
    ELSE StrLess(Tail(s), Tail(t))

\* `query in name`: substring test.
Contains(q, s) ==
    \E i \in 1..(Len(s) + 1) :
        /\ i + Len(q) - 1 <= Len(s)
        /\ SubSeq(s, i, i + Len(q) - 1) = q

RECURSIVE LStrip(_)
LStrip(s) == IF s # <<>> /\ s[1] = " " THEN LStrip(Tail(s)) ELSE s

RECURSIVE RStrip(_)
RStrip(s) ==
    IF s # <<>> /\ s[Len(s)] = " " THEN RStrip(SubSeq(s, 1, Len(s) - 1)) ELSE s

\* str.strip()
Strip(s) == RStrip(LStrip(s))

----------------------------------------------------------------------------
\* The filesystem: "/" holds the home directory h; h holds the directory d,
\* the symbolic link L -> d and the files a and b; d holds the files c and "c ".
\* Directories are fixed, regular files come and go (variable exists).

Top == <<>>

Home == <<nm_h>>

DirD == <<nm_h, nm_d>>

LinkL == <<nm_h, nm_L>>

FileA == <<nm_h, nm_a>>

FileB == <<nm_h, nm_b>>

FileC == <<nm_h, nm_d, nm_c>>

FileCs == <<nm_h, nm_d, nm_cs>>

Dirs == {Top, Home, DirD}

AllFiles == {FileA, FileB, FileC, FileCs}

AllNames == {nm_h, nm_d, nm_L, nm_a, nm_b, nm_c, nm_cs}

\* Path.parent ("/".parent is "/").
Parent(p) == IF p = <<>> THEN <<>> ELSE SubSeq(p, 1, Len(p) - 1)

\* current_dir / filename (joining "" leaves the path as it is).
JoinPath(dir, filename) == IF filename = <<>> THEN dir ELSE Append(dir, filename)

\* The canonical (symlink-resolved) path.
Resolve(p) ==
    IF Len(p) >= 2 /\ SubSeq(p, 1, 2) = LinkL
    THEN DirD \o SubSeq(p, 3, Len(p))
    ELSE p

\* The filesystem is the set of the regular files that exist, with two kinds
\* of marks: Fifo(p) for a named pipe at p (p is then no regular file) and
\* Locked(p) for a regular file at p that the user may not read.
Fifo(p) == <<<<"|">>>> \o p

Locked(p) == <<<<"!">>>> \o p

is_dir(p) == Resolve(p) \in Dirs

is_file(p, ex) == Resolve(p) \in ex

\* Mutant: every path is taken to exist.
path_exists_always(p, ex) == TRUE

path_exists(p, ex) == is_dir(p) \/ is_file(p, ex) \/ Fifo(Resolve(p)) \in ex

\* open(path, "rb") and a read succeed.
can_read(p, ex) == is_file(p, ex) /\ Locked(Resolve(p)) \notin ex

\* str(path): the names, each after a slash.
RECURSIVE PathStr(_)
PathStr(p) ==
    IF p = <<>> THEN <<>> ELSE <<"/">> \o Head(p) \o PathStr(Tail(p))

\* Path.iterdir(): the entries of a directory, as paths below `dir`.
iterdir(dir, ex) ==
    {Append(dir, n) : n \in {m \in AllNames :
        \/ Append(Resolve(dir), m) \in (Dirs \cup {LinkL} \cup ex)
        \/ Fifo(Append(Resolve(dir), m)) \in ex}}

----------------------------------------------------------------------------
\* UploadConfig

\* Python's None, where a string is expected.
PyNone == "<None>"

\* The truth value Python gives an optional string.
Truthy(v) == v \notin {PyNone, ""}

\* UploadConfig(), BUZZHEAVIER_API_KEY not being set in the environment.
UploadConfig ==
    [api_key     |-> PyNone,
     parent_id   |-> PyNone,
     location_id |-> PyNone,
     note        |-> PyNone,
     base_url    |-> "https://w.buzzheavier.com"]

----------------------------------------------------------------------------
\* FileItem objects and the heap

NoUrl == <<>>

\* FileItem.__init__(path, is_selected), run against the filesystem ex.
FileItem(path, sel, ex) ==
    LET dirflag == IF path_exists(path, ex) THEN is_dir(path) ELSE FALSE
    IN  [path        |-> path,
         name        |-> IF path = <<>> THEN <<>> ELSE path[Len(path)],
         is_dir      |-> dirflag,
         is_selected |-> IF dirflag THEN FALSE ELSE sel,
         upload_url  |-> NoUrl]

\* Mutant: the setter stores the value whatever the item is.
is_selected_setter_unguarded(fi, value) == [fi EXCEPT !.is_selected = value]

\* The is_selected setter: selecting a directory is refused.
is_selected_setter(fi, value) ==
    IF fi.is_dir /\ value THEN fi ELSE [fi EXCEPT !.is_selected = value]

\* FileItem.__str__: emoji, a blank, the name.
Str(fi) == <<IF fi.is_dir THEN EmojiDir ELSE EmojiFile, " ">> \o fi.name

RECURSIVE SeqToSet(_)
SeqToSet(s) == IF s = <<>> THEN {} ELSE {Head(s)} \cup SeqToSet(Tail(s))

RECURSIVE RunRefs(_)
RunRefs(rs) ==
    IF rs = <<>> THEN {}
    ELSE SeqToSet(Head(rs).files) \cup SeqToSet(Head(rs).upload_files)
            \cup RunRefs(Tail(rs))

\* The object ids some list still refers to.
Refs(sel, rs) == SeqToSet(sel) \cup RunRefs(rs)

\* Mutant: a new object takes the place of the first one.
FreshId_first(used) == 1

\* The id a newly created object gets: the smallest one not in `used`.
FreshId(used) ==
    CHOOSE i \in 1..(Cardinality(used) + 1) :
        /\ i \notin used
        /\ \A j \in 1..(i - 1) : j \in used

\* The heap once the objects no list refers to are reclaimed.
Collect(its, sel, rs) == [i \in Refs(sel, rs) |-> its[i]]

\* The paths of a list of object ids.
PathsOf(its, ids) == [i \in 1..Len(ids) |-> its[ids[i]].path]

----------------------------------------------------------------------------
\* The rendered file table

GreenMark == "[green]v[/green]"

PlainMark == "v"

NoMark == ""

ParentLabel == <<EmojiDir, " ", ".", ".">>

ParentRow == [label |-> ParentLabel, type |-> "Directory", mark |-> NoMark]

\* Mutant: the names are compared as they are written.
KeyLess_case(p, q) ==
    \/ is_dir(p) /\ ~is_dir(q)
    \/ /\ is_dir(p) = is_dir(q)
       /\ StrLess(p[Len(p)], q[Len(q)])

\* The key of paths.sort: (not p.is_dir(), p.name.lower()).
KeyLess(p, q) ==
    \/ is_dir(p) /\ ~is_dir(q)
    \/ /\ is_dir(p) = is_dir(q)
       /\ StrLess(LowerStr(p[Len(p)]), LowerStr(q[Len(q)]))

RECURSIVE SortPaths(_)
SortPaths(S) ==
    IF S = {} THEN <<>>
    ELSE LET m == CHOOSE p \in S : \A q \in S \ {p} : ~KeyLess(q, p)
         IN  <<m>> \o SortPaths(S \ {m})

\* One table.add_row of a listing.
RenderRow(path, ex, selpaths, mark) ==
    LET fi == FileItem(path, FALSE, ex)
    IN  [label |-> Str(fi),
         type  |-> IF fi.is_dir THEN "Directory" ELSE "File",
         mark  |-> IF path \in selpaths THEN mark ELSE NoMark]

\* The rows update_file_list puts into the table.
update_file_list(dir, ex, selpaths) ==
    LET paths == SortPaths(iterdir(dir, ex))
    IN  (IF dir # Home THEN <<ParentRow>> ELSE <<>>)
            \o [i \in 1..Len(paths) |-> RenderRow(paths[i], ex, selpaths, GreenMark)]

\* The rows action_search puts into the table for a non-empty query.
search_rows(dir, ex, selpaths, query) ==
    LET paths == SortPaths({p \in iterdir(dir, ex) :
                               Contains(query, LowerStr(p[Len(p)]))})
    IN  [i \in 1..Len(paths) |-> RenderRow(paths[i], ex, selpaths, PlainMark)]

\* The path a row's first cell is parsed back to: current_dir / cell[2:].strip()
RowPath(dir, cell) == JoinPath(dir, Strip(SubSeq(cell, 3, Len(cell))))

----------------------------------------------------------------------------
\* Selection list operations.  A selection state is the record
\* [table, items, selected_files]; `busy` are the object ids upload screens
\* still hold.

CurSt == [table |-> table, items |-> items, selected_files |-> selected_files]

Busy == RunRefs(runs)

SelPaths == {items[selected_files[i]].path : i \in 1..Len(selected_files)}

\* A SettingsScreen is on the screen stack (on top of it).
SettingsMounted == settings

\* An UploadProgressScreen is on the screen stack.
UploadMounted == \E k \in 1..Len(runs) : runs[k].mounted

\* [f for f in self.selected_files if str(f.path) != path_str]
RemovePath(its, sel, path) == SelectSeq(sel, LAMBDA id : its[id].path # path)

\* Mutant: the new entry is inserted at the front of the list.
AppendItem_front(st, id, fi) ==
    [st EXCEPT !.items = (id :> fi) @@ st.items,
               !.selected_files = <<id>> \o st.selected_files]

\* self.selected_files.append(file_item), the object getting the id `id`
AppendItem(st, id, fi) ==
    [st EXCEPT !.items = (id :> fi) @@ st.items,
               !.selected_files = Append(st.selected_files, id)]

\* table.update_cell_at((row, 3), mark)
MarkRow(st, r, mark) == [st EXCEPT !.table[r].mark = mark]

\* _toggle_select_file with the cursor on row r (rows count from 1).
toggle_select_file(r, st, dir, ex, busy) ==
    IF r \notin 1..Len(st.table) THEN st
    ELSE LET cell == st.table[r].label
             path == RowPath(dir, cell)
             sel  == st.selected_files
         IN  IF r = 1 /\ cell[1] = EmojiDir THEN st
             ELSE IF is_dir(path) THEN st
             ELSE IF ~path_exists(path, ex) THEN st
             ELSE IF \E i \in 1..Len(sel) : st.items[sel[i]].path = path
             THEN [MarkRow(st, r, NoMark) EXCEPT
                      !.selected_files = RemovePath(st.items, sel, path)]
             ELSE LET fi == FileItem(path, TRUE, ex)
                      id == FreshId(busy \cup SeqToSet(sel))
                  IN  IF fi.is_dir THEN st
                      ELSE AppendItem(MarkRow(st, r, GreenMark), id, fi)

\* The loop of action_select_all from row r on.
RECURSIVE select_all_rows(_, _, _, _, _)
select_all_rows(r, st, dir, ex, busy) ==
    IF r > Len(st.table) THEN st
    ELSE LET cell == st.table[r].label
             path == RowPath(dir, cell)
             id   == FreshId(busy \cup SeqToSet(st.selected_files))
         IN  IF cell = ParentLabel
             THEN select_all_rows(r + 1, st, dir, ex, busy)
             ELSE IF is_file(path, ex)
             THEN select_all_rows(r + 1,
                      AppendItem(MarkRow(st, r, GreenMark), id,
                                 FileItem(path, TRUE, ex)),
                      dir, ex, busy)
             ELSE select_all_rows(r + 1, st, dir, ex, busy)

\* The loop of action_clear_selection over the rows.
clear_marks(tbl) == [r \in 1..Len(tbl) |-> [tbl[r] EXCEPT !.mark = NoMark]]

\* Mutant: only the marks of the table are cleared.
clear_selection_marks_only(st) == [st EXCEPT !.table = clear_marks(st.table)]

\* action_clear_selection: the marks are cleared, then the list is emptied.
clear_selection(st) ==
    [st EXCEPT !.table = clear_marks(st.table), !.selected_files = <<>>]

\* Store a selection state; objects nothing refers to any more are reclaimed.
ApplySel(st) ==
    /\ table' = st.table
    /\ selected_files' = st.selected_files
    /\ items' = Collect(st.items, st.selected_files, runs)

Rows == 1..(IF Len(table) = 0 THEN 1 ELSE Len(table))

----------------------------------------------------------------------------
\* The filesystem changes under the program.

fs_delete(f) ==
    /\ f \in exists
    /\ exists' = exists \ {f}
    /\ UNCHANGED <<config, settings, current_dir, table, focus, deferred, items, selected_files,
                   runs, inbox, last_notify>>

fs_create(f) ==
    /\ f \notin exists
    /\ exists' = exists \cup {f}
    /\ UNCHANGED <<config, settings, current_dir, table, focus, deferred, items, selected_files,
                   runs, inbox, last_notify>>

\* What is found at a path: nothing, a regular file, a named pipe, a
\* regular file without read permission.
EntryKinds == {"missing", "regular", "fifo", "locked"}

Entry(f, kind) ==
    CASE kind = "regular" -> {f}
      [] kind = "fifo" -> {Fifo(f)}
      [] kind = "locked" -> {f, Locked(f)}
      [] OTHER -> {}

\* rm, touch, mkfifo or chmod at f.
fs_replace(f, kind) ==
    /\ exists' = (exists \ {f, Fifo(f), Locked(f)}) \cup Entry(f, kind)
    /\ exists' # exists
    /\ UNCHANGED <<config, settings, current_dir, table, focus, deferred, items, selected_files,
                   runs, inbox, last_notify>>

----------------------------------------------------------------------------
\* Main screen handlers

\* Key 's' on the file table, cursor on row r.
on_selectable_data_table_select_key_pressed(r) ==
    /\ ~UploadMounted /\ ~SettingsMounted
    /\ focus' = TRUE
    /\ ApplySel(toggle_select_file(r, CurSt, current_dir, exists, Busy))
    /\ UNCHANGED <<config, settings, exists, current_dir, deferred, runs, inbox, last_notify>>

\* Key 'x': toggles at once when the table has the focus, else focuses the
\* table and defers the toggle with call_after_refresh.
action_toggle_select(r) ==
    /\ focus \/ deferred < MaxDeferred
    /\ focus' = TRUE
    /\ IF focus
       THEN /\ ApplySel(toggle_select_file(r, CurSt, current_dir, exists, Busy))
            /\ UNCHANGED deferred
       ELSE /\ deferred' = deferred + 1
            /\ UNCHANGED <<table, items, selected_files>>
    /\ UNCHANGED <<config, settings, exists, current_dir, runs, inbox, last_notify>>

\* The deferred _toggle_select_file runs, the cursor being on row r.
call_after_refresh(r) ==
    /\ deferred > 0
    /\ deferred' = deferred - 1
    /\ focus' = TRUE
    /\ ApplySel(toggle_select_file(r, CurSt, current_dir, exists, Busy))
    /\ UNCHANGED <<config, settings, exists, current_dir, runs, inbox, last_notify>>

action_select_all ==
    /\ ApplySel(select_all_rows(1, [CurSt EXCEPT !.selected_files = <<>>],
                                current_dir, exists, Busy))
    /\ UNCHANGED <<config, settings, exists, current_dir, focus, deferred, runs, inbox, last_notify>>

action_clear_selection ==
    /\ ApplySel(clear_selection(CurSt))
    /\ UNCHANGED <<config, settings, exists, current_dir, focus, deferred, runs, inbox, last_notify>>

\* The directory tree (rooted at home) reports a click on directory p.
on_directory_tree_directory_selected(p) ==
    /\ ~UploadMounted /\ ~SettingsMounted
    /\ current_dir' = p
    /\ table' = update_file_list(p, exists, SelPaths)
    /\ focus' = TRUE
    /\ UNCHANGED <<config, settings, exists, deferred, items, selected_files, runs, inbox, last_notify>>

\* Enter, cursor on row r.
action_open_selected(r) ==
    /\ ~UploadMounted /\ ~SettingsMounted
    /\ r \in 1..Len(table)
    /\ LET cell == table[r].label
           path == RowPath(current_dir, cell)
       IN  IF r = 1 /\ cell[1] = EmojiDir
           THEN /\ current_dir' = Parent(current_dir)
                /\ table' = update_file_list(Parent(current_dir), exists, SelPaths)
                /\ focus' = TRUE
                /\ UNCHANGED <<config, settings, exists, deferred, items, selected_files, runs,
                               inbox, last_notify>>
           ELSE IF is_dir(path)
           THEN /\ current_dir' = path
                /\ table' = update_file_list(path, exists, SelPaths)
                /\ focus' = TRUE
                /\ UNCHANGED <<config, settings, exists, deferred, items, selected_files, runs,
                               inbox, last_notify>>
           ELSE action_toggle_select(r)

\* Mutant: a refresh starts from an empty selection.
action_refresh_clears ==
    /\ ~UploadMounted /\ ~SettingsMounted
    /\ selected_files' = <<>>
    /\ items' = Collect(items, <<>>, runs)
    /\ table' = update_file_list(current_dir, exists, {})
    /\ focus' = TRUE
    /\ UNCHANGED <<config, settings, exists, current_dir, deferred, runs,
                   inbox, last_notify>>

\* r: the listing of the current directory is rendered again.
action_refresh ==
    /\ ~UploadMounted /\ ~SettingsMounted
    /\ table' = update_file_list(current_dir, exists, SelPaths)
    /\ focus' = TRUE
    /\ UNCHANGED <<config, settings, exists, current_dir, deferred, items, selected_files, runs,
                   inbox, last_notify>>

\* The search button, the search input holding the text q.
action_search(q) ==
    /\ ~UploadMounted /\ ~SettingsMounted
    /\ LET query == LowerStr(q)
       IN  IF query = <<>>
           THEN /\ table' = update_file_list(current_dir, exists, SelPaths)
                /\ focus' = TRUE
           ELSE /\ table' = search_rows(current_dir, exists, SelPaths, query)
                /\ UNCHANGED focus
    /\ UNCHANGED <<config, settings, exists, current_dir, deferred, items, selected_files, runs,
                   inbox, last_notify>>

action_focus_search ==
    /\ ~UploadMounted /\ ~SettingsMounted
    /\ focus' = FALSE
    /\ UNCHANGED <<config, settings, exists, current_dir, table, deferred, items, selected_files,
                   runs, inbox, last_notify>>

----------------------------------------------------------------------------
\* HTTP responses and their interpretation (upload_file.do_upload)

\* A response: the status code and the text, a sequence of tokens.  Status 0
\* stands for requests.put raising; the text is then the exception's.
Resp(status, body) == [status |-> status, body |-> body]

TransportError == Resp(0, <<"ConnectionError">>)

\* Response texts.
BodyEmpty == <<>>

BodyOk == <<" ", "ok", " ">>

BodyForbidden == <<"forbidden">>

\* {"data":{"id":"xyz9"}}
BodyWithId == <<"{", "data", ":", "{", "id", ":", "xyz9", "}", "}">>

\* The length of a long file id.
LongIdLen == 80

\* A file id of LongIdLen characters.
LongId == [i \in 1..LongIdLen |-> "x"]

\* {"data":{"id":"xx...x"}}
BodyWithLongId == <<"{", "data", ":", "{", "id", ":", "x...", "}", "}">>

\* {"data":{"id":null}}
BodyIdNull == <<"{", "data", ":", "{", "id", ":", "null", "}", "}">>

\* {}
BodyNoData == <<"{", "}">>

\* {"data":{}}
BodyNoId == <<"{", "data", ":", "{", "}", "}">>

\* {"data":null}
BodyNullData == <<"{", "data", ":", "null", "}">>

\* {"data":"xid"}
BodyStrData == <<"{", "data", ":", "xid", "}">>

\* 5
BodyNumber == <<"5">>

\* null
BodyNull == <<"null">>

\* ["data"]
BodyList == <<"[", "data", "]">>

\* Parsed JSON values, tagged with their Python type.
JInvalid == [t |-> "invalid"]

JNull == [t |-> "NoneType"]

JNum(n) == [t |-> "int", v |-> n]

JStr(chars) == [t |-> "str", v |-> chars]

JList(vs) == [t |-> "list", v |-> vs]

JDict(f) == [t |-> "dict", v |-> f]

KeyData == <<"d", "a", "t", "a">>

KeyId == <<"i", "d">>

\* json.loads(response.text); JInvalid stands for JSONDecodeError.
json_loads(body) ==
    CASE body = BodyWithId -> JDict(KeyData :> JDict(KeyId :> JStr(<<"x", "y", "z", "9">>)))
      [] body = BodyWithLongId -> JDict(KeyData :> JDict(KeyId :> JStr(LongId)))
      [] body = BodyIdNull -> JDict(KeyData :> JDict(KeyId :> JNull))
      [] body = BodyNoData -> JDict(<<>>)
      [] body = BodyNoId -> JDict(KeyData :> JDict(<<>>))
      [] body = BodyNullData -> JDict(KeyData :> JNull)
      [] body = BodyStrData -> JDict(KeyData :> JStr(<<"x", "i", "d">>))
      [] body = BodyNumber -> JNum(5)
      [] body = BodyNull -> JNull
      [] body = BodyList -> JList(<<JStr(KeyData)>>)
      [] OTHER -> JInvalid

\* Python's `key in x` raises TypeError unless x is a container.
IsContainer(x) == x.t \in {"dict", "str", "list"}

\* `key in x` for a str key and a container x.
py_in(key, x) ==
    CASE x.t = "dict" -> key \in DOMAIN x.v
      [] x.t = "str" -> Contains(key, x.v)
      [] x.t = "list" -> \E i \in 1..Len(x.v) : x.v[i].t = "str" /\ x.v[i].v = key
      [] OTHER -> FALSE

\* str(value) inside an f-string
py_str(x) ==
    CASE x.t = "str" -> x.v
      [] x.t = "int" -> <<x.v>>
      [] x.t = "NoneType" -> <<"None">>
      [] OTHER -> <<x.t>>

\* 'data' in response_data and 'id' in response_data['data'], then
\* response_data['data']['id']: the id found, nothing found, or TypeError.
data_id(x) ==
    IF ~IsContainer(x) THEN [kind |-> "TypeError"]
    ELSE IF ~py_in(KeyData, x) THEN [kind |-> "none"]
    ELSE IF x.t # "dict" THEN [kind |-> "TypeError"]
    ELSE LET d == x.v[KeyData]
         IN  IF ~IsContainer(d) THEN [kind |-> "TypeError"]
             ELSE IF ~py_in(KeyId, d) THEN [kind |-> "none"]
             ELSE IF d.t # "dict" THEN [kind |-> "TypeError"]
             ELSE [kind |-> "id", id |-> d.v[KeyId]]

\* Mutant: the link is made for the API host.
full_url_api(file_id) == <<"https://buzzheavier.com/api/">> \o py_str(file_id)

\* full_url = f"https://buzzheavier.com/{file_id}"
full_url(file_id) == <<"https://buzzheavier.com/">> \o py_str(file_id)

\* The responses the pipeline specification draws from.
Responses ==
    {Resp(201, BodyWithId), Resp(200, BodyOk), Resp(403, BodyForbidden), TransportError}

\* Mutant: the link of the answer is stored whatever the status is.
do_upload_stores_always(fi, resp) ==
    [success |-> resp.status \in {200, 201},
     message |-> <<"Error: HTTP ", resp.status, " - ">> \o resp.body,
     upload_url |-> <<"https://buzzheavier.com/">> \o resp.body]

\* do_upload once requests.put has answered (or raised): the returned
\* (success, message) and the value file_item.upload_url is left with.
do_upload(fi, resp) ==
    LET failed(detail) == [success |-> FALSE,
                           message |-> <<"Upload request failed: ">> \o detail,
                           upload_url |-> fi.upload_url]
        fallback == [success |-> TRUE,
                     message |-> IF Strip(resp.body) # <<>>
                                 THEN Strip(resp.body)
                                 ELSE <<"File ">> \o fi.name \o <<" uploaded successfully">>,
                     upload_url |-> fi.upload_url]
        parsed == json_loads(resp.body)
    IN  IF resp.status = 0 THEN failed(resp.body)
        ELSE IF resp.status \in {200, 201}
        THEN IF parsed.t = "invalid" THEN fallback
             ELSE IF resp.status # 201 THEN fallback
             ELSE LET found == data_id(parsed)
                  IN  IF found.kind = "TypeError" THEN failed(<<"TypeError">>)
                      ELSE IF found.kind = "none" THEN fallback
                      ELSE [success |-> TRUE,
                            message |-> fi.name \o <<": ">> \o full_url(found.id),
                            upload_url |-> full_url(found.id)]
        ELSE [success |-> FALSE,
              message |-> <<"Error: HTTP ", resp.status, " - ">> \o resp.body,
              upload_url |-> fi.upload_url]

\* str.encode(): the UTF-8 bytes of the notes the settings are given.
utf8(note) ==
    CASE note = "hi" -> <<104, 105>>
      [] OTHER -> <<>>

\* The base64 alphabet, value v at position v + 1.
B64Alphabet ==
    <<"A", "B", "C", "D", "E", "F", "G", "H", "I", "J", "K", "L", "M",
      "N", "O", "P", "Q", "R", "S", "T", "U", "V", "W", "X", "Y", "Z",
      "a", "b", "c", "d", "e", "f", "g", "h", "i", "j", "k", "l", "m",
      "n", "o", "p", "q", "r", "s", "t", "u", "v", "w", "x", "y", "z",
      "0", "1", "2", "3", "4", "5", "6", "7", "8", "9", "+", "/">>

\* base64.b64encode of a byte string: each three bytes give four characters,
\* a last group of one or two bytes is padded with "=".
RECURSIVE b64_bytes(_)
b64_bytes(bs) ==
    IF bs = <<>> THEN ""
    ELSE IF Len(bs) = 1
    THEN LET n == bs[1] * 65536
         IN  B64Alphabet[(n \div 262144) + 1]
                \o B64Alphabet[((n \div 4096) % 64) + 1] \o "=="
    ELSE IF Len(bs) = 2
    THEN LET n == bs[1] * 65536 + bs[2] * 256
         IN  B64Alphabet[(n \div 262144) + 1]
                \o B64Alphabet[((n \div 4096) % 64) + 1]
                \o B64Alphabet[((n \div 64) % 64) + 1] \o "="
    ELSE LET n == bs[1] * 65536 + bs[2] * 256 + bs[3]
         IN  B64Alphabet[(n \div 262144) + 1]
                \o B64Alphabet[((n \div 4096) % 64) + 1]
                \o B64Alphabet[((n \div 64) % 64) + 1]
                \o B64Alphabet[(n % 64) + 1]
                \o b64_bytes(SubSeq(bs, 4, Len(bs)))

\* Mutant: the note is sent as it is.
b64encode_plain(note) == note

\* base64.b64encode(note.encode()).decode()
b64encode(note) == b64_bytes(utf8(note))

\* The URL upload_file puts to: base_url/parent_id/name when a parent id is
\* set, else base_url/name.
request_url(cfg, name) ==
    IF Truthy(cfg.parent_id)
    THEN <<cfg.base_url, "/", cfg.parent_id, "/">> \o name
    ELSE <<cfg.base_url, "/">> \o name

\* Mutant: the location id is sent whenever it is set.
request_params_location_always(cfg) ==
    (IF Truthy(cfg.location_id)
     THEN {<<"locationId", cfg.location_id>>} ELSE {})
    \cup (IF Truthy(cfg.note) THEN {<<"note", b64encode(cfg.note)>>} ELSE {})

\* The query parameters of the request.
request_params(cfg) ==
    (IF ~Truthy(cfg.parent_id) /\ Truthy(cfg.location_id)
     THEN {<<"locationId", cfg.location_id>>} ELSE {})
    \cup (IF Truthy(cfg.note) THEN {<<"note", b64encode(cfg.note)>>} ELSE {})

\* Mutant: the Authorization header is always sent.
request_headers_always(cfg) == {<<"Authorization", "Bearer ", cfg.api_key>>}

\* The headers of the request.
request_headers(cfg) ==
    IF Truthy(cfg.api_key)
    THEN {<<"Authorization", "Bearer ", cfg.api_key>>}
    ELSE {}

\* requests.put(url, data=file_content, headers=headers, params=params) for
\* queue entry `index`.
Request(index, cfg, fi) ==
    [index   |-> index,
     url     |-> request_url(cfg, fi.name),
     params  |-> request_params(cfg),
     headers |-> request_headers(cfg)]

\* Mutant: the file is not opened before the request.
upload_precheck_unread(path, ex) ==
    IF ~path_exists(path, ex) THEN <<"File does not exist: ">> \o PathStr(path)
    ELSE IF ~is_file(path, ex) \/ is_dir(path)
    THEN <<"Not a valid file: ">> \o PathStr(path)
    ELSE <<>>

\* The checks of upload_file before the request: the failure message, or
\* <<>> when the file may be uploaded.
upload_precheck(path, ex) ==
    IF ~path_exists(path, ex) THEN <<"File does not exist: ">> \o PathStr(path)
    ELSE IF ~is_file(path, ex) \/ is_dir(path)
    THEN <<"Not a valid file: ">> \o PathStr(path)
    ELSE IF ~can_read(path, ex)
    THEN <<"Cannot read file: ", "PermissionError">>
    ELSE <<>>

----------------------------------------------------------------------------
\* UploadProgressScreen

\* The queue __init__ keeps of the files it is given.
upload_queue(files, its, ex) ==
    SelectSeq(files, LAMBDA id :
        /\ its[id].is_selected
        /\ ~its[id].is_dir
        /\ path_exists(its[id].path, ex)
        /\ is_file(its[id].path, ex))

\* UploadProgressScreen(files, config), composed and mounted.  `files` keeps
\* the list the constructor was given and `gone` those of them that did not
\* exist at that moment (the constructor only logs them).
UploadProgressScreen(files, its, ex) ==
    LET queue == upload_queue(files, its, ex)
    IN  [files          |-> files,
         gone           |-> {id \in SeqToSet(files) : ~path_exists(its[id].path, ex)},
         upload_files   |-> queue,
         current_index  |-> 0,
         results        |-> <<>>,
         pc             |-> "mounted",
         inflight       |-> {},
         puts           |-> 0,
         sent           |-> <<>>,
         status         |-> <<"Preparing to upload...">>,
         progress       |-> <<0, Len(queue)>>,
         close_disabled |-> FALSE,
         copy_disabled  |-> TRUE,
         mounted        |-> TRUE,
         posted         |-> <<>>,
         copied         |-> <<>>]

\* valid_files of action_upload
valid_files(its, sel) ==
    SelectSeq(sel, LAMBDA id : ~its[id].is_dir /\ its[id].is_selected)

Notice(title, message) == [title |-> title, message |-> message]

NoNotice == Notice("", <<>>)

NoFilesNotice == Notice("Error", <<"No files selected for upload">>)

\* Mutant: the selection is not checked again after the toggle.
nothing_selected_unchecked(sel) == FALSE

\* `not self.selected_files`, checked again after the toggle of action_upload
nothing_selected(sel) == sel = <<>>

\* Key 'u' or the Upload button, the cursor on row r.
action_upload(r) ==
    LET empty == selected_files = <<>>
        st    == IF empty /\ focus
                 THEN toggle_select_file(r, CurSt, current_dir, exists, Busy)
                 ELSE CurSt
        sel   == st.selected_files
        valid == valid_files(st.items, sel)
    IN  /\ (empty /\ ~focus) => deferred < MaxDeferred
        /\ focus' = IF empty THEN TRUE ELSE focus
        /\ deferred' = IF empty /\ ~focus THEN deferred + 1 ELSE deferred
        /\ table' = st.table
        /\ selected_files' = sel
        /\ IF nothing_selected(sel)
           THEN /\ last_notify' = NoFilesNotice
                /\ runs' = runs
           ELSE IF valid = <<>>
           THEN /\ last_notify' = Notice("Error",
                     <<"No valid files selected for upload (directories cannot be uploaded)">>)
                /\ runs' = runs
           ELSE /\ last_notify' = Notice("Upload Started",
                                         <<"Uploading ", Len(valid), " files">>)
                /\ runs' = Append(runs, UploadProgressScreen(valid, st.items, exists))
        /\ items' = Collect(st.items, sel, runs')
        /\ UNCHANGED <<config, settings, exists, current_dir, inbox>>

\* A screen that is closed and whose start_uploads has ended is dropped.
SetRun(k, run) ==
    /\ runs' = IF run.pc = "done" /\ ~run.mounted
               THEN SubSeq(runs, 1, k - 1) \o SubSeq(runs, k + 1, Len(runs))
               ELSE [runs EXCEPT ![k] = run]
    /\ items' = Collect(items, selected_files, runs')

\* The screen on top of the stack.
TopRun == CHOOSE k \in 1..Len(runs) :
              runs[k].mounted /\ \A j \in (k + 1)..Len(runs) : ~runs[j].mounted

\* escape / q / Close on the progress screen
action_close ==
    /\ UploadMounted /\ ~SettingsMounted
    /\ SetRun(TopRun, [runs[TopRun] EXCEPT !.mounted = FALSE])
    /\ UNCHANGED <<config, settings, exists, current_dir, table, focus, deferred, selected_files,
                   inbox, last_notify>>

\* Mutant: an empty queue is run through the loop like any other.
no_files_loop(total) == FALSE

\* total_files == 0 in start_uploads
no_files(total) == total = 0

\* start_uploads up to its first await.
start_uploads(k) ==
    LET run == runs[k]
        total == Len(run.upload_files)
    IN  /\ run.pc = "mounted"
        /\ IF no_files(total)
           THEN SetRun(k, [run EXCEPT !.status = <<"No files selected for upload">>,
                                      !.progress = <<0, 0>>,
                                      !.close_disabled = FALSE,
                                      !.pc = "done"])
           ELSE SetRun(k, [run EXCEPT !.status = <<"Starting uploads...">>,
                                      !.progress = <<0, total>>,
                                      !.close_disabled = TRUE,
                                      !.pc = "next"])
        /\ UNCHANGED <<config, settings, exists, current_dir, table, focus, deferred, selected_files,
                       inbox, last_notify>>

\* Mutant: the progress line counts the files from zero.
progress_line_from_zero(index, total) == <<index - 1, total>>

\* progress.update(f"{self.current_index} / {total_files}")
progress_line(index, total) == <<index, total>>

\* The head of the loop for the next file, up to the await before upload_file.
loop_next(k) ==
    LET run == runs[k]
        i   == run.current_index
    IN  /\ run.pc = "next"
        /\ i < Len(run.upload_files)
        /\ SetRun(k, [run EXCEPT
                 !.current_index = i + 1,
                 !.status = <<"Uploading: ">> \o items[run.upload_files[i + 1]].name,
                 !.progress = progress_line(i + 1, Len(run.upload_files)),
                 !.pc = "pre"])
        /\ UNCHANGED <<config, settings, exists, current_dir, table, focus, deferred, selected_files,
                       inbox, last_notify>>

\* Mutant: the outcome replaces the list instead of being appended to it.
record_outcome_overwrite(results, id, success, message) ==
    <<[file |-> id, success |-> success, message |-> message]>>

\* self.results.append((file_item, success, message))
record_outcome(results, id, success, message) ==
    Append(results, [file |-> id, success |-> success, message |-> message])

\* Mutant: the PUT is handed to the executor and not awaited.
after_dispatch_no_await == "next"

\* Where start_uploads goes on once the PUT is handed to the executor:
\* `await loop.run_in_executor(None, do_upload)`.
after_dispatch == "await"

\* Mutant: a failed upload is tried again.
after_outcome_retry(success) == IF success THEN "next" ELSE "pre"

\* Mutant: a failed upload ends the loop.
after_outcome_abort(success) == IF success THEN "next" ELSE "done"

\* Where start_uploads goes on once an outcome is recorded: both the try and
\* the except branch fall through to the next iteration.
after_outcome(success) == "next"

\* upload_file from its start to run_in_executor, or to its early return.
upload_begin(k) ==
    LET run == runs[k]
        id  == run.upload_files[run.current_index]
        bad == upload_precheck(items[id].path, exists)
    IN  /\ run.pc = "pre"
        /\ IF bad # <<>>
           THEN SetRun(k, [run EXCEPT
                    !.results = record_outcome(run.results, id, FALSE, bad),
                    !.pc = after_outcome(FALSE)])
           ELSE SetRun(k, [run EXCEPT
                    !.inflight = run.inflight \cup {run.current_index},
                    !.puts = run.puts + 1,
                    !.sent = Append(run.sent,
                                 Request(run.current_index, config, items[id])),
                    !.pc = after_dispatch])
        /\ UNCHANGED <<config, settings, exists, current_dir, table, focus, deferred, selected_files,
                       inbox, last_notify>>

\* The PUT of queue entry i ends with resp; start_uploads records the outcome.
upload_return(k, i, resp) ==
    LET run == runs[k]
        id  == run.upload_files[i]
        out == do_upload(items[id], resp)
        its == [items EXCEPT ![id].upload_url = out.upload_url]
        new == [run EXCEPT
                   !.inflight = run.inflight \ {i},
                   !.results = record_outcome(run.results, id, out.success, out.message),
                   !.pc = IF run.pc = "await" THEN after_outcome(out.success)
                                              ELSE run.pc]
    IN  /\ i \in run.inflight
        /\ runs' = [runs EXCEPT ![k] = new]
        /\ items' = Collect(its, selected_files, runs')
        /\ UNCHANGED <<config, settings, exists, current_dir, table, focus, deferred, selected_files,
                       inbox, last_notify>>

RECURSIVE success_count(_)
success_count(results) ==
    IF results = <<>> THEN 0
    ELSE (IF Head(results).success THEN 1 ELSE 0) + success_count(Tail(results))

\* Mutant: one successful upload is enough for the success signal.
UploadComplete_any(count, total) ==
    [success |-> count > 0,
     message |-> <<"Successfully uploaded ", count, " of ", total, " files">>]

\* UploadComplete(success=(success_count == total_files), message=...)
UploadComplete(count, total) ==
    [success |-> count = total,
     message |-> <<"Successfully uploaded ", count, " of ", total, " files">>]

\* start_uploads after the loop.
finish(k) ==
    LET run == runs[k]
        count == success_count(run.results)
        msg == UploadComplete(count, Len(run.upload_files))
    IN  /\ run.pc = "next"
        /\ run.current_index = Len(run.upload_files)
        /\ SetRun(k, [run EXCEPT !.status = <<"Upload process complete">>,
                                 !.close_disabled = FALSE,
                                 !.copy_disabled = (count = 0),
                                 !.posted = Append(run.posted, msg),
                                 !.pc = "done"])
        /\ inbox' = Append(inbox, msg)
        /\ UNCHANGED <<config, settings, exists, current_dir, table, focus, deferred, selected_files,
                       last_notify>>

on_upload_progress_screen_upload_complete ==
    /\ inbox # <<>>
    /\ last_notify' = Notice(IF Head(inbox).success THEN "Upload Complete"
                                                   ELSE "Upload Incomplete",
                             Head(inbox).message)
    /\ inbox' = Tail(inbox)
    /\ UNCHANGED <<config, settings, exists, current_dir, table, focus, deferred, items,
                   selected_files, runs>>

\* The characters of the pieces texts are made of.
Explode(tok) ==
    CASE tok = "https://buzzheavier.com/" ->
            <<"h", "t", "t", "p", "s", ":", "/", "/", "b", "u", "z", "z",
              "h", "e", "a", "v", "i", "e", "r", ".", "c", "o", "m", "/">>
      [] tok = ": " -> <<":", " ">>
      [] tok = "None" -> <<"N", "o", "n", "e">>
      [] OTHER -> <<tok>>

\* A text, character by character.
RECURSIVE Chars(_)
Chars(toks) ==
    IF toks = <<>> THEN <<>> ELSE Explode(Head(toks)) \o Chars(Tail(toks))

\* The lines copy_urls_to_clipboard collects from self.results.
successful_uploads(results, its) ==
    LET ok == SelectSeq(results, LAMBDA res :
                  res.success /\ its[res.file].upload_url # NoUrl)
    IN  [i \in 1..Len(ok) |->
            Chars(its[ok[i].file].name \o <<": ">> \o its[ok[i].file].upload_url)]

\* "\n".join(lines)
RECURSIVE join_lines(_)
join_lines(lines) ==
    IF lines = <<>> THEN <<>>
    ELSE IF Len(lines) = 1 THEN lines[1]
    ELSE lines[1] \o <<"\n">> \o join_lines(Tail(lines))

\* The number of characters of the text the failure notification shows.
NotifyLimit == 100

\* text[:n]
py_prefix(text, n) == SubSeq(text, 1, IF Len(text) < n THEN Len(text) ELSE n)

\* The notification once every clipboard mechanism has failed.
copy_failed_notice(text) ==
    Notice("Copy Failed",
           <<"Failed to copy to clipboard. Here are your URLs:\n">>
              \o py_prefix(text, NotifyLimit)
              \o (IF Len(text) > NotifyLimit THEN <<"...">> ELSE <<>>))

\* The ways the clipboard answers: xclip exits with 0; xclip fails and
\* pyperclip works; both fail.
Mechanisms == {"xclip", "pyperclip", "none"}

\* The Copy URLs button of the progress screen k.
copy_urls_to_clipboard(k, mech) ==
    LET run   == runs[k]
        lines == successful_uploads(run.results, items)
        text  == join_lines(lines)
    IN  /\ UploadMounted /\ ~SettingsMounted
        /\ k = TopRun
        /\ ~run.copy_disabled
        /\ IF lines = <<>>
           THEN /\ last_notify' = Notice("Copy Failed", <<"No successful uploads to copy">>)
                /\ UNCHANGED runs
           ELSE IF mech = "none"
           THEN /\ last_notify' = copy_failed_notice(text)
                /\ UNCHANGED runs
           ELSE /\ last_notify' = Notice("Copy Success",
                                       <<"Copied ", Len(lines), " URLs to clipboard">>)
                /\ runs' = [runs EXCEPT ![k].copied = <<text>>]
        /\ UNCHANGED <<config, settings, exists, current_dir, table, focus, deferred,
                       items, selected_files, inbox>>

\* UploadConfig.is_authenticated: bool(self.api_key and self.api_key.strip())
is_authenticated(cfg) ==
    /\ Truthy(cfg.api_key)
    /\ Strip(Chars(<<cfg.api_key>>)) # <<>>

----------------------------------------------------------------------------
\* SettingsScreen

\* Key 'o' or the Settings button: a SettingsScreen is pushed.
action_toggle_settings ==
    /\ ~SettingsMounted
    /\ settings' = TRUE
    /\ UNCHANGED <<exists, current_dir, table, focus, deferred, items,
                   selected_files, runs, inbox, last_notify, config>>

\* ctrl+s or the Save button, the four inputs holding the given texts.
action_save(api_key, parent_id, location_id, note) ==
    /\ SettingsMounted
    /\ config' = [config EXCEPT !.api_key = api_key,
                                !.parent_id = parent_id,
                                !.location_id = location_id,
                                !.note = note]
    /\ last_notify' = Notice("Success", <<"Settings saved successfully">>)
    /\ settings' = FALSE
    /\ UNCHANGED <<exists, current_dir, table, focus, deferred, items,
                   selected_files, runs, inbox>>

\* escape or the Cancel button on the settings screen.
settings_cancel ==
    /\ SettingsMounted
    /\ settings' = FALSE
    /\ UNCHANGED <<exists, current_dir, table, focus, deferred, items,
                   selected_files, runs, inbox, last_notify, config>>

----------------------------------------------------------------------------
\* Specifications

InitWith(files) ==
    /\ exists = files
    /\ current_dir = Home
    /\ table = update_file_list(Home, files, {})
    /\ focus = FALSE
    /\ deferred = 0
    /\ items = <<>>
    /\ selected_files = <<>>
    /\ runs = <<>>
    /\ inbox = <<>>
    /\ last_notify = NoNotice
    /\ config = UploadConfig
    /\ settings = FALSE

TreeDirs == {Home, DirD, LinkL}

Queries == {<<>>, <<"C">>, <<"l">>}

\* The main screen is idle: no progress screen exists, nothing is pending.
Idle == runs = <<>> /\ inbox = <<>>

\* The upload pipeline over the files a and b of the home directory.  The
\* main screen is used while it is idle; files vanish and come back at any
\* time.
UpFiles == {FileA, FileB}

Init == InitWith(UpFiles)

Next ==
    \/ \E f \in UpFiles : fs_delete(f)
    \/ \E f \in UpFiles : fs_create(f)
    \/ Idle /\ \E r \in Rows : action_toggle_select(r)
    \/ Idle /\ \E r \in Rows : call_after_refresh(r)
    \/ Idle /\ \E r \in Rows : action_upload(r)
    \/ action_close
    \/ \E k \in 1..Len(runs) : start_uploads(k)
    \/ \E k \in 1..Len(runs) : loop_next(k)
    \/ \E k \in 1..Len(runs) : upload_begin(k)
    \/ \E k \in 1..Len(runs) : \E i \in runs[k].inflight : \E resp \in Responses :
            upload_return(k, i, resp)
    \/ \E k \in 1..Len(runs) : finish(k)
    \/ on_upload_progress_screen_upload_complete

Spec == Init /\ [][Next]_vars

\* The clipboard export: the files a and b are uploaded, answered with a
\* short id, a long id, plain text or a refusal, and the Copy URLs button is
\* pressed with the clipboard answering in each way.
ClipResponses ==
    {Resp(201, BodyWithId), Resp(201, BodyWithLongId), Resp(200, BodyOk),
     Resp(403, BodyForbidden)}

NextClip ==
    \/ Idle /\ \E r \in Rows : action_toggle_select(r)
    \/ Idle /\ \E r \in Rows : call_after_refresh(r)
    \/ Idle /\ \E r \in Rows : action_upload(r)
    \/ action_close
    \/ \E k \in 1..Len(runs) : start_uploads(k)
    \/ \E k \in 1..Len(runs) : loop_next(k)
    \/ \E k \in 1..Len(runs) : upload_begin(k)
    \/ \E k \in 1..Len(runs) : \E i \in runs[k].inflight : \E resp \in ClipResponses :
            upload_return(k, i, resp)
    \/ \E k \in 1..Len(runs) : finish(k)
    \/ on_upload_progress_screen_upload_complete
    \/ \E k \in 1..Len(runs) : \E mech \in Mechanisms : copy_urls_to_clipboard(k, mech)

SpecClip == Init /\ [][NextClip]_vars

\* The selection list under navigation, search and a changing filesystem
\* holding the file a and, below d, the files c and "c ".
SelFiles == {FileA, FileC, FileCs}

InitSel == InitWith(SelFiles)

NextSel ==
    \/ \E f \in SelFiles : fs_delete(f)
    \/ \E f \in SelFiles : fs_create(f)
    \/ \E p \in TreeDirs : on_directory_tree_directory_selected(p)
    \/ \E r \in Rows : action_open_selected(r)
    \/ \E r \in Rows : on_selectable_data_table_select_key_pressed(r)
    \/ \E r \in Rows : action_toggle_select(r)
    \/ \E r \in Rows : call_after_refresh(r)
    \/ action_select_all
    \/ action_clear_selection
    \/ action_refresh
    \/ \E q \in Queries : action_search(q)
    \/ action_focus_search

SpecSel == InitSel /\ [][NextSel]_vars

\* Navigation, search and refresh with a selection: as SpecSel, the file c
\* alone vanishing and coming back.
NextNav ==
    \/ fs_delete(FileC)
    \/ fs_create(FileC)
    \/ \E p \in TreeDirs : on_directory_tree_directory_selected(p)
    \/ \E r \in Rows : action_open_selected(r)
    \/ \E r \in Rows : on_selectable_data_table_select_key_pressed(r)
    \/ \E r \in Rows : action_toggle_select(r)
    \/ \E r \in Rows : call_after_refresh(r)
    \/ action_select_all
    \/ action_clear_selection
    \/ action_refresh
    \/ \E q \in Queries : action_search(q)
    \/ action_focus_search

SpecNav == InitSel /\ [][NextNav]_vars

\* One upload at a time of the file a, answered by any of a range of
\* responses, the settings being changed at any moment.
HttpFiles == {FileA}

Statuses == {200, 201, 204, 403}

Bodies ==
    {BodyEmpty, BodyOk, BodyForbidden, BodyWithId, BodyIdNull, BodyNoData,
     BodyNoId, BodyNullData, BodyStrData, BodyNumber, BodyNull, BodyList}

AllResponses ==
    {Resp(status, body) : status \in Statuses, body \in Bodies} \cup {TransportError}

ApiKeys == {"", "key"}

ParentIds == {"", "abc123"}

LocationIds == {"", "loc"}

Notes == {"", "hi"}

InitHttp == InitWith(HttpFiles)

NextHttp ==
    \/ Idle /\ ~SettingsMounted /\ \E r \in Rows : action_toggle_select(r)
    \/ Idle /\ ~SettingsMounted /\ \E r \in Rows : call_after_refresh(r)
    \/ Idle /\ ~SettingsMounted /\ \E r \in Rows : action_upload(r)
    \/ action_toggle_settings
    \/ \E api_key \in ApiKeys : \E parent_id \in ParentIds :
          \E location_id \in LocationIds : \E note \in Notes :
              action_save(api_key, parent_id, location_id, note)
    \/ settings_cancel
    \/ action_close
    \/ \E k \in 1..Len(runs) : start_uploads(k)
    \/ \E k \in 1..Len(runs) : loop_next(k)
    \/ \E k \in 1..Len(runs) : upload_begin(k)
    \/ \E k \in 1..Len(runs) : \E i \in runs[k].inflight : \E resp \in AllResponses :
            upload_return(k, i, resp)
    \/ \E k \in 1..Len(runs) : finish(k)
    \/ on_upload_progress_screen_upload_complete

SpecHttp == InitHttp /\ [][NextHttp]_vars

\* One run at a time over the files a and b with the scheduling of the event loop:
\* a step of start_uploads that is ready to run is run (the coroutine is
\* resumed once its sleep or its executor future is done).  Nothing makes
\* the server answer: requests.put is called without a timeout.
NextLive ==
    \/ Idle /\ \E r \in Rows : action_toggle_select(r)
    \/ Idle /\ \E r \in Rows : call_after_refresh(r)
    \/ Idle /\ \E r \in Rows : action_upload(r)
    \/ action_close
    \/ \E k \in 1..Len(runs) : start_uploads(k)
    \/ \E k \in 1..Len(runs) : loop_next(k)
    \/ \E k \in 1..Len(runs) : upload_begin(k)
    \/ \E k \in 1..Len(runs) : \E i \in runs[k].inflight : \E resp \in Responses :
            upload_return(k, i, resp)
    \/ \E k \in 1..Len(runs) : finish(k)
    \/ on_upload_progress_screen_upload_complete

\* The steps the event loop takes on its own.
EventLoopStep ==
    \E k \in 1..Len(runs) :
        start_uploads(k) \/ loop_next(k) \/ upload_begin(k) \/ finish(k)

SpecLive == Init /\ [][NextLive]_vars /\ WF_vars(EventLoopStep)

\* The upload key while uploads run: u and the Upload button start a run
\* whenever the selection holds a file, whatever screens exist; at most
\* MaxRuns progress screens exist at a time, and a completion message is
\* handled before the next key.
MaxRuns == 2

NextTwo ==
    \/ Idle /\ \E r \in Rows : action_toggle_select(r)
    \/ Idle /\ \E r \in Rows : call_after_refresh(r)
    \/ Len(runs) < MaxRuns /\ inbox = <<>> /\ \E r \in Rows : action_upload(r)
    \/ action_close
    \/ \E k \in 1..Len(runs) : start_uploads(k)
    \/ \E k \in 1..Len(runs) : loop_next(k)
    \/ \E k \in 1..Len(runs) : upload_begin(k)
    \/ \E k \in 1..Len(runs) : \E i \in runs[k].inflight : \E resp \in Responses :
            upload_return(k, i, resp)
    \/ \E k \in 1..Len(runs) : finish(k)
    \/ on_upload_progress_screen_upload_complete

SpecTwo == InitHttp /\ [][NextTwo]_vars

\* The selection changed during a run: one run at a time over the files a
\* and b, the selection keys pressed at any moment of it.
BusyResponses == {Resp(201, BodyWithId), TransportError}

NextBusy ==
    \/ \E r \in Rows : action_toggle_select(r)
    \/ \E r \in Rows : call_after_refresh(r)
    \/ action_select_all
    \/ action_clear_selection
    \/ Idle /\ \E r \in Rows : action_upload(r)
    \/ action_close
    \/ \E k \in 1..Len(runs) : start_uploads(k)
    \/ \E k \in 1..Len(runs) : loop_next(k)
    \/ \E k \in 1..Len(runs) : upload_begin(k)
    \/ \E k \in 1..Len(runs) : \E i \in runs[k].inflight : \E resp \in BusyResponses :
            upload_return(k, i, resp)
    \/ \E k \in 1..Len(runs) : finish(k)
    \/ on_upload_progress_screen_upload_complete

SpecBusy == Init /\ [][NextBusy]_vars

\* The checks before the request: one run at a time over the file a, which
\* is removed, replaced by a named pipe or made unreadable at any moment.
PreResponses == {Resp(201, BodyWithId), TransportError}

NextPre ==
    \/ \E kind \in EntryKinds : fs_replace(FileA, kind)
    \/ Idle /\ \E r \in Rows : action_toggle_select(r)
    \/ Idle /\ \E r \in Rows : call_after_refresh(r)
    \/ Idle /\ \E r \in Rows : action_upload(r)
    \/ action_close
    \/ \E k \in 1..Len(runs) : start_uploads(k)
    \/ \E k \in 1..Len(runs) : loop_next(k)
    \/ \E k \in 1..Len(runs) : upload_begin(k)
    \/ \E k \in 1..Len(runs) : \E i \in runs[k].inflight : \E resp \in PreResponses :
            upload_return(k, i, resp)
    \/ \E k \in 1..Len(runs) : finish(k)
    \/ on_upload_progress_screen_upload_complete

SpecPre == InitHttp /\ [][NextPre]_vars

\* The api key: one upload at a time of the file a, the settings being saved
\* with an empty, a blank or a non-blank key, or left as they are with the
\* key unset.
AuthKeys == {"", " ", "key"}

NextAuth ==
    \/ Idle /\ ~SettingsMounted /\ \E r \in Rows : action_toggle_select(r)
    \/ Idle /\ ~SettingsMounted /\ \E r \in Rows : call_after_refresh(r)
    \/ Idle /\ ~SettingsMounted /\ \E r \in Rows : action_upload(r)
    \/ action_toggle_settings
    \/ \E api_key \in AuthKeys : action_save(api_key, "", "", "")
    \/ settings_cancel
    \/ action_close
    \/ \E k \in 1..Len(runs) : start_uploads(k)
    \/ \E k \in 1..Len(runs) : loop_next(k)
    \/ \E k \in 1..Len(runs) : upload_begin(k)
    \/ \E k \in 1..Len(runs) : \E i \in runs[k].inflight : \E resp \in PreResponses :
            upload_return(k, i, resp)
    \/ \E k \in 1..Len(runs) : finish(k)
    \/ on_upload_progress_screen_upload_complete

SpecAuth == InitHttp /\ [][NextAuth]_vars

\* FileItem objects on their own: one object, built for any path with any
\* flag, its is_selected assigned any value, over a changing filesystem.
ItemPaths == Dirs \cup AllFiles \cup {LinkL, Append(LinkL, nm_c)}

InitItem ==
    /\ exists = AllFiles
    /\ current_dir = Home
    /\ table = <<>>
    /\ focus = FALSE
    /\ deferred = 0
    /\ \E p \in ItemPaths : \E sel \in BOOLEAN :
            items = <<FileItem(p, sel, AllFiles)>>
    /\ selected_files = <<>>
    /\ runs = <<>>
    /\ inbox = <<>>
    /\ last_notify = NoNotice
    /\ config = UploadConfig
    /\ settings = FALSE

\* FileItem(path, is_selected)
item_construct(p, sel) ==
    /\ items' = <<FileItem(p, sel, exists)>>
    /\ UNCHANGED <<config, settings, exists, current_dir, table, focus, deferred, selected_files,
                   runs, inbox, last_notify>>

\* item.is_selected = value
item_assign(value) ==
    /\ items' = [items EXCEPT ![1] = is_selected_setter(items[1], value)]
    /\ UNCHANGED <<config, settings, exists, current_dir, table, focus, deferred, selected_files,
                   runs, inbox, last_notify>>

NextItem ==
    \/ \E f \in AllFiles : fs_delete(f)
    \/ \E f \in AllFiles : fs_create(f)
    \/ \E p \in ItemPaths : \E sel \in BOOLEAN : item_construct(p, sel)
    \/ \E value \in BOOLEAN : item_assign(value)

SpecItem == InitItem /\ [][NextItem]_vars

----------------------------------------------------------------------------
\* Properties of the upload pipeline (specification Spec)

ResultFiles(run) == [j \in 1..Len(run.results) |-> run.results[j].file]

Successes(run) == Cardinality({j \in 1..Len(run.results) : run.results[j].success})

IsFailureMessage(message) ==
    message[1] \in {"File does not exist: ", "Not a valid file: ",
                    "Upload request failed: ", "Error: HTTP "}

\* C1: a completed run holds exactly one outcome for every file of the
\* selection that was handed to the pipeline, in the order of the selection.
C1_OneOutcomePerSelectedFile ==
    \A k \in 1..Len(runs) :
        runs[k].pc = "done" => ResultFiles(runs[k]) = runs[k].files

\* C2: an upload that ends in an error is recorded as a failed outcome of its
\* file and does not end the loop: every outcome belongs to the queue entry of
\* its position, an error message goes with success = FALSE, between two
\* uploads every file started so far has its outcome, and a run is done only
\* when every queued file has one.
C2_FailureIsolation ==
    \A k \in 1..Len(runs) :
        LET run == runs[k]
        IN  /\ \A j \in 1..Len(run.results) :
                /\ j <= Len(run.upload_files)
                /\ run.results[j].file = run.upload_files[j]
                /\ IsFailureMessage(run.results[j].message) => ~run.results[j].success
            /\ run.pc = "next" => Len(run.results) = run.current_index
            /\ run.pc = "done" => Len(run.results) = Len(run.upload_files)

\* A finished run of two files whose first upload failed and whose second
\* file was uploaded all the same.
C2_Witness ==
    \E k \in 1..Len(runs) :
        /\ runs[k].pc = "done"
        /\ Len(runs[k].results) = 2
        /\ ~runs[k].results[1].success
        /\ runs[k].results[2].success

\* C3: a file of the selection that no longer existed when the pipeline was
\* created has, once the run is done, a failed outcome saying that the file
\* does not exist.
C3_VanishedFileReported ==
    \A k \in 1..Len(runs) :
        runs[k].pc = "done" =>
            \A id \in runs[k].gone :
                \E j \in 1..Len(runs[k].results) :
                    /\ runs[k].results[j].file = id
                    /\ ~runs[k].results[j].success
                    /\ runs[k].results[j].message[1] = "File does not exist: "

\* C4: while the upload of a file is being started or is in flight, the
\* outcomes of all the files before it are recorded, and it is the only
\* upload of its run in flight.
C4_Sequential ==
    \A k \in 1..Len(runs) :
        LET run == runs[k]
        IN  /\ Cardinality(run.inflight) <= 1
            /\ run.inflight \subseteq {run.current_index}
            /\ (run.pc \in {"pre", "await"} \/ run.inflight # {}) =>
                    Len(run.results) = run.current_index - 1

\* The second upload of a run is in flight, the first outcome recorded.
C4_Witness ==
    \E k \in 1..Len(runs) :
        /\ runs[k].inflight = {2}
        /\ Len(runs[k].results) = 1

UploadStep == \E r \in Rows : action_upload(r)

IsPrefix(s, t) == Len(s) <= Len(t) /\ SubSeq(t, 1, Len(s)) = s

\* C6: whatever happens, a run's results only grow, by one outcome at a time,
\* and at the end: outcomes already recorded keep their place and content.
\* Closing the progress screen leaves the results of a run that goes on
\* as they are.
C6_ResultsAppendOnly ==
    [][\A k \in 1..Len(runs) :
          k <= Len(runs') =>
              /\ IsPrefix(runs[k].results, runs'[k].results)
              /\ Len(runs'[k].results) <= Len(runs[k].results) + 1
              /\ action_close => runs'[k].results = runs[k].results]_vars

\* A run closed before its end goes on with the outcomes it had recorded.
C6_Witness ==
    \E k \in 1..Len(runs) :
        /\ ~runs[k].mounted
        /\ runs[k].pc = "await"
        /\ Len(runs[k].results) = 1

\* C7: a run of N >= 1 files has posted no completion message before it is
\* done and exactly one when it is done, whose success flag is set exactly
\* when all N outcomes are successes; the notification made of such a message
\* is titled 'Upload Complete' exactly when it reports N of N.
C7_OneCompletionSignal ==
    /\ \A k \in 1..Len(runs) :
          LET run == runs[k]
              total == Len(run.upload_files)
          IN  /\ run.pc # "done" => run.posted = <<>>
              /\ (run.pc = "done" /\ total >= 1) =>
                    /\ Len(run.posted) = 1
                    /\ run.posted[1].success = (Successes(run) = total)
                    /\ run.posted[1].message[2] = Successes(run)
                    /\ run.posted[1].message[4] = total
    /\ \A j \in 1..Len(inbox) :
          inbox[j].success = (inbox[j].message[2] = inbox[j].message[4])
    /\ last_notify.title = "Upload Complete" =>
          last_notify.message[2] = last_notify.message[4]
    /\ last_notify.title = "Upload Incomplete" =>
          last_notify.message[2] # last_notify.message[4]

\* A run of two files is done with one success and one failure.
C7_Witness ==
    \E k \in 1..Len(runs) :
        /\ runs[k].pc = "done"
        /\ Len(runs[k].upload_files) = 2
        /\ Successes(runs[k]) = 1
        /\ last_notify.title = "Upload Incomplete"

\* C8: a pipeline with an empty queue is, once started, in its terminal state:
\* 'no files' status, progress 0 / 0, Close enabled, no outcome, no request
\* made or in flight, no completion message.
C8_EmptyQueueTerminal ==
    \A k \in 1..Len(runs) :
        LET run == runs[k]
        IN  (run.upload_files = <<>> /\ run.pc # "mounted") =>
                /\ run.pc = "done"
                /\ run.status = <<"No files selected for upload">>
                /\ run.progress = <<0, 0>>
                /\ ~run.close_disabled
                /\ run.results = <<>>
                /\ run.puts = 0
                /\ run.inflight = {}
                /\ run.posted = <<>>

\* A pipeline with an empty queue has been started.
C8_Witness ==
    \E k \in 1..Len(runs) : runs[k].upload_files = <<>> /\ runs[k].pc = "done"

----------------------------------------------------------------------------
\* Properties of the selection list (specification SpecSel)

\* Row r stands for a valid file: _toggle_select_file reaches its toggle.
ValidFileRow(r) ==
    /\ ~(r = 1 /\ table[r].label[1] = EmojiDir)
    /\ ~is_dir(RowPath(current_dir, table[r].label))
    /\ path_exists(RowPath(current_dir, table[r].label), exists)

\* The paths of the selection after two toggles of row r.
TwiceToggled(r) ==
    LET st1 == toggle_select_file(r, CurSt, current_dir, exists, Busy)
        st2 == toggle_select_file(r, st1, current_dir, exists, Busy)
    IN  PathsOf(st2.items, st2.selected_files)

\* No path is held twice by the selection.
DistinctPaths == Cardinality(SelPaths) = Len(selected_files)

\* C9 as stated (for a selection that holds no path twice): two toggles of a
\* valid file give back the selection, same entries in the same order.
C9_ToggleInvolution ==
    \A r \in 1..Len(table) :
        (ValidFileRow(r) /\ DistinctPaths) =>
            TwiceToggled(r) = PathsOf(items, selected_files)

\* C9 amended: two toggles of a valid file p give back the selection when p
\* was not selected; when p was selected its entries are removed, the other
\* entries keep their order, and one entry for p ends the list.
C9_ToggleTwice ==
    \A r \in 1..Len(table) :
        ValidFileRow(r) =>
            LET p == RowPath(current_dir, table[r].label)
                before == PathsOf(items, selected_files)
            IN  TwiceToggled(r) =
                    IF p \in SelPaths
                    THEN Append(SelectSeq(before, LAMBDA q : q # p), p)
                    ELSE before

\* A valid file that is selected, and not as the last entry, has its row shown;
\* the selection holds no path twice.
C9_Witness ==
    \E r \in 1..Len(table) :
        /\ ValidFileRow(r)
        /\ DistinctPaths
        /\ Len(selected_files) >= 2
        /\ items[selected_files[1]].path = RowPath(current_dir, table[r].label)

\* C10: no two entries of the selection stand for the same canonical file.
C10_NoCanonicalDuplicates ==
    \A i, j \in 1..Len(selected_files) :
        i # j => Resolve(items[selected_files[i]].path)
                    # Resolve(items[selected_files[j]].path)

----------------------------------------------------------------------------
\* Properties of toggle, select-all and clear (specification SpecSel)

\* Row r is one the toggle must ignore: the parent row, a directory, or a
\* path that is no longer there.
IgnoredRow(r) ==
    LET path == RowPath(current_dir, table[r].label)
    IN  \/ r = 1 /\ table[r].label[1] = EmojiDir
        \/ Resolve(path) \in Dirs
        \/ Resolve(path) \notin Dirs \cup exists

\* A toggle on an ignored row whose path is not selected changes nothing.
ToggleIgnoresRow ==
    \A r \in 1..Len(table) :
        (IgnoredRow(r) /\ RowPath(current_dir, table[r].label) \notin SelPaths) =>
            toggle_select_file(r, CurSt, current_dir, exists, Busy) = CurSt

\* Every entry a step brings into the selection is a file that exists.
InsertedAreLiveFiles ==
    \A i \in 1..Len(selected_files') :
        LET p == items'[selected_files'[i]].path
        IN  (p \notin SelPaths \/ action_select_all) =>
                /\ Resolve(p) \notin Dirs
                /\ Resolve(p) \in exists
                /\ ~items'[selected_files'[i]].is_dir

\* C11: an entry is inserted into the selection only for a path that is not
\* a directory and exists at that moment; a toggle on the parent row, on a
\* directory or on a path that no longer exists, the path not being selected,
\* leaves the table and the selection as they are.
C11_OnlyLiveFilesInserted ==
    []ToggleIgnoresRow /\ [][InsertedAreLiveFiles]_vars

\* With a non-empty selection the table shows the row of a file that has been
\* deleted and is not selected.
C11_Witness ==
    /\ selected_files # <<>>
    /\ \E r \in 1..Len(table) :
          /\ table[r].type = "File"
          /\ Resolve(RowPath(current_dir, table[r].label)) \notin exists
          /\ RowPath(current_dir, table[r].label) \notin SelPaths

\* C12: a FileItem of a directory is never selected, whether it was built
\* with is_selected = True or had True assigned to is_selected.
C12_DirectoryNeverSelected ==
    \A id \in DOMAIN items :
        /\ items[id].is_dir => ~items[id].is_selected
        /\ items[id].is_dir =>
              /\ ~FileItem(items[id].path, TRUE, exists).is_selected
              /\ ~is_selected_setter(items[id], TRUE).is_selected

\* The object stands for the directory reached through the symlink.
C12_Witness ==
    /\ items # <<>>
    /\ items[1].path = LinkL
    /\ items[1].is_dir
    /\ ~items[1].is_selected

\* The paths left when the entries for p are taken out.
Without(paths, p) == SelectSeq(paths, LAMBDA q : q # p)

\* C13: a toggle on the row of a selected path removes its entries and leaves
\* the other entries in their order, whether the file still exists or not.
C13_ToggleRemovesSelected ==
    \A r \in 1..Len(table) :
        LET p == RowPath(current_dir, table[r].label)
        IN  (~(r = 1 /\ table[r].label[1] = EmojiDir) /\ p \in SelPaths) =>
                PathsOf(toggle_select_file(r, CurSt, current_dir, exists, Busy).items,
                        toggle_select_file(r, CurSt, current_dir, exists, Busy).selected_files)
                    = Without(PathsOf(items, selected_files), p)

\* The path a row was listed for: the directory and the name shown.
ListedPath(dir, label) == Append(dir, SubSeq(label, 3, Len(label)))

\* The paths of the File rows of the table, in table order.
FileRowPaths ==
    LET rows == SelectSeq(table, LAMBDA row : row.type = "File")
    IN  [i \in 1..Len(rows) |-> ListedPath(current_dir, rows[i].label)]

\* C14: after select-all (every File row shown still being a file) the
\* selection is the sequence of the File rows of the table, in table order.
C14_SelectAllIsListing ==
    [][(action_select_all /\
          \A i \in 1..Len(FileRowPaths) : Resolve(FileRowPaths[i]) \in exists) =>
              PathsOf(items', selected_files') = FileRowPaths]_vars

\* C15: clear empties the selection from any state, also right after a
\* select-all, and every clear step leaves the selection empty.
C15_ClearEmpties ==
    /\ [](/\ clear_selection(CurSt).selected_files = <<>>
          /\ clear_selection(select_all_rows(1, [CurSt EXCEPT !.selected_files = <<>>],
                  current_dir, exists, Busy)).selected_files = <<>>)
    /\ [][action_clear_selection => selected_files' = <<>>]_vars

\* Two entries are selected and select-all would select a file.
C15_Witness ==
    /\ Len(selected_files) >= 2
    /\ select_all_rows(1, [CurSt EXCEPT !.selected_files = <<>>],
                       current_dir, exists, Busy).selected_files # <<>>

----------------------------------------------------------------------------
\* Properties of one upload and its request (specification SpecHttp)

\* The step is the return of the PUT of queue entry i of run k with resp.
Returned(k, i, resp) == i \in runs[k].inflight /\ upload_return(k, i, resp)

\* The outcome the step has appended to the results of run k.
NewOutcome(k) == runs'[k].results[Len(runs'[k].results)]

\* The file of queue entry i of run k.
Uploaded(k, i) == runs[k].upload_files[i]

HttpResponses == AllResponses \ {TransportError}

\* The message of a success that carries no link.
PlainMessage(name, body) ==
    IF Strip(body) # <<>> THEN Strip(body)
    ELSE <<"File ">> \o name \o <<" uploaded successfully">>

\* C16: whatever the body, the outcome of an answered PUT is a success
\* exactly when the status is 200 or 201; for another status the message is
\* "Error: HTTP <status> - <body>".
C16_SuccessIffStatus ==
    [][\A k \in 1..Len(runs) : \A i \in 1..Len(runs[k].upload_files) :
          \A resp \in HttpResponses :
              Returned(k, i, resp) =>
                  /\ NewOutcome(k).success = (resp.status \in {200, 201})
                  /\ resp.status \notin {200, 201} =>
                        NewOutcome(k).message =
                            <<"Error: HTTP ", resp.status, " - ">> \o resp.body]_vars

\* The bodies that are JSON objects holding data.id, with the text of the id.
IdOf(body) ==
    CASE body = BodyWithId -> <<"x", "y", "z", "9">>
      [] body = BodyIdNull -> <<"None">>
      [] OTHER -> <<>>

BodiesWithId == {BodyWithId, BodyIdNull}

\* C17: a 201 answer whose JSON body holds data.id gives a success with the
\* message "<name>: https://buzzheavier.com/<id>", and that URL is stored as
\* upload_url of the uploaded FileItem.
C17_LinkFromDataId ==
    [][\A k \in 1..Len(runs) : \A i \in 1..Len(runs[k].upload_files) :
          \A body \in BodiesWithId :
              Returned(k, i, Resp(201, body)) =>
                  /\ NewOutcome(k).success
                  /\ NewOutcome(k).file = Uploaded(k, i)
                  /\ NewOutcome(k).message =
                        items[Uploaded(k, i)].name
                            \o <<": ", "https://buzzheavier.com/">> \o IdOf(body)
                  /\ items'[Uploaded(k, i)].upload_url =
                        <<"https://buzzheavier.com/">> \o IdOf(body)]_vars

\* A finished upload of the file a has given the link of the id xyz9.
C17_Witness ==
    \E k \in 1..Len(runs) :
        /\ Len(runs[k].results) = 1
        /\ runs[k].results[1].success
        /\ runs[k].results[1].message =
              <<"a", ": ", "https://buzzheavier.com/", "x", "y", "z", "9">>
        /\ items[runs[k].results[1].file].upload_url =
              <<"https://buzzheavier.com/", "x", "y", "z", "9">>

\* C18: a 200 answer with any body, and a 201 answer whose body holds no
\* data.id, give a success whose message is the trimmed body, or the generic
\* message for an empty body, and leave upload_url as it was.
C18_PlainSuccess ==
    [][\A k \in 1..Len(runs) : \A i \in 1..Len(runs[k].upload_files) :
          \A resp \in HttpResponses :
              (/\ Returned(k, i, resp)
               /\ \/ resp.status = 200
                  \/ resp.status = 201 /\ resp.body \notin BodiesWithId) =>
                  /\ NewOutcome(k).success
                  /\ NewOutcome(k).message =
                        PlainMessage(items[Uploaded(k, i)].name, resp.body)
                  /\ items'[Uploaded(k, i)].upload_url =
                        items[Uploaded(k, i)].upload_url]_vars

\* Every request of a run is for another queue entry, none for an entry
\* the loop has not reached.
OnePutPerFile ==
    \A k \in 1..Len(runs) :
        LET sent == runs[k].sent
        IN  /\ runs[k].puts = Len(sent)
            /\ \A m, n \in 1..Len(sent) : m # n => sent[m].index # sent[n].index
            /\ \A m \in 1..Len(sent) : sent[m].index <= runs[k].current_index

\* A PUT that raised gives a failed outcome with the exception's text and no
\* further request.
TransportFailure ==
    \A k \in 1..Len(runs) : \A i \in 1..Len(runs[k].upload_files) :
        Returned(k, i, TransportError) =>
            /\ ~NewOutcome(k).success
            /\ NewOutcome(k).message = <<"Upload request failed: ", "ConnectionError">>
            /\ runs'[k].sent = runs[k].sent
            /\ runs'[k].inflight = {}

\* C19: a file is put at most once; a PUT that raises is recorded as
\* "Upload request failed: <detail>" and is not repeated.
C19_SinglePutNoRetry ==
    []OnePutPerFile /\ [][TransportFailure]_vars

\* A run has ended with its one request made and the outcome of a PUT that raised.
C19_Witness ==
    \E k \in 1..Len(runs) :
        /\ runs[k].pc = "done"
        /\ Len(runs[k].sent) = 1
        /\ Len(runs[k].results) = 1
        /\ runs[k].results[1].message[1] = "Upload request failed: "
        /\ runs[k].results[1].message[2] = "ConnectionError"

\* The value of the locationId parameter of a request, <<>> when not sent.
LocationParam(rq) == {pr[2] : pr \in {q \in rq.params : q[1] = "locationId"}}

\* C20: a request made with a parent id set goes to base_url/parent_id/name
\* and carries no locationId; one made without goes to base_url/name and
\* carries locationId exactly when a location id is set.
C20_ParentBeforeLocation ==
    [][\A k \in 1..Len(runs) :
          (k <= Len(runs') /\ Len(runs'[k].sent) = Len(runs[k].sent) + 1) =>
              LET rq   == runs'[k].sent[Len(runs'[k].sent)]
                  name == items[runs[k].upload_files[rq.index]].name
              IN  IF Truthy(config.parent_id)
                  THEN /\ rq.url = <<config.base_url, "/", config.parent_id, "/">> \o name
                       /\ LocationParam(rq) = {}
                  ELSE /\ rq.url = <<config.base_url, "/">> \o name
                       /\ LocationParam(rq) =
                             IF Truthy(config.location_id)
                             THEN {config.location_id} ELSE {}]_vars

\* A request was made with both ids set: it names the parent and carries no
\* locationId.
C20_Witness ==
    \E k \in 1..Len(runs) :
        /\ Len(runs[k].sent) = 1
        /\ config.parent_id = "abc123"
        /\ config.location_id = "loc"
        /\ runs[k].sent[1].url =
              <<"https://w.buzzheavier.com", "/", "abc123", "/", "a">>
        /\ LocationParam(runs[k].sent[1]) = {}
        /\ runs[k].inflight = {1}

\* The value of the note parameter of a request, none when not sent.
NoteParam(rq) == {pr[2] : pr \in {q \in rq.params : q[1] = "note"}}

\* C21: a request carries the note parameter exactly when a note is
\* configured, whatever the parent and location ids are; its value is the
\* base64 text of the note's UTF-8 bytes ("hi" gives "aGk=").
C21_NoteParam ==
    [][\A k \in 1..Len(runs) :
          (k <= Len(runs') /\ Len(runs'[k].sent) = Len(runs[k].sent) + 1) =>
              LET rq == runs'[k].sent[Len(runs'[k].sent)]
              IN  /\ Truthy(config.note) <=> NoteParam(rq) # {}
                  /\ config.note = "hi" => NoteParam(rq) = {"aGk="}]_vars

\* A request was made to the parent id endpoint with the note "hi" set.
C21_Witness ==
    \E k \in 1..Len(runs) :
        /\ Len(runs[k].sent) = 1
        /\ config.parent_id = "abc123"
        /\ config.note = "hi"
        /\ NoteParam(runs[k].sent[1]) = {"aGk="}
        /\ runs[k].inflight = {1}

\* C22: upload_file, given an uploadable file, makes the request whether or
\* not an api key is configured and records no outcome before the answer;
\* the request carries Authorization: Bearer <api_key> exactly when the key
\* is set, and no header at all otherwise.
C22_BearerHeader ==
    [][\A k \in 1..Len(runs) :
          (k <= Len(runs') /\ runs[k].pc = "pre" /\ runs'[k].pc # "pre") =>
              LET rq == runs'[k].sent[Len(runs'[k].sent)]
              IN  /\ Len(runs'[k].sent) = Len(runs[k].sent) + 1
                  /\ runs'[k].results = runs[k].results
                  /\ rq.headers =
                        IF config.api_key \in {PyNone, ""}
                        THEN {}
                        ELSE {<<"Authorization", "Bearer ", config.api_key>>}]_vars

\* A request is in flight that was made without a header, the key being the
\* empty string a settings save left.
C22_Witness ==
    \E k \in 1..Len(runs) :
        /\ Len(runs[k].sent) = 1
        /\ config.api_key = ""
        /\ runs[k].sent[1].headers = {}
        /\ runs[k].inflight = {1}
        /\ runs[k].results = <<>>

\* The paths of the selection list, in its order.
SelectionOrder == PathsOf(items, selected_files)

\* A step that renders the listing without being a selection operation:
\* refresh, search, selecting a directory in the tree, opening a directory
\* row or the parent row.
RenderStep ==
    \/ action_refresh
    \/ \E q \in Queries : action_search(q)
    \/ \E p \in TreeDirs : on_directory_tree_directory_selected(p)
    \/ \E r \in Rows : action_open_selected(r) /\ current_dir' # current_dir

\* A step of one of the selection operations.
SelectionStep ==
    \/ \E r \in Rows : on_selectable_data_table_select_key_pressed(r)
    \/ \E r \in Rows : action_toggle_select(r)
    \/ \E r \in Rows : call_after_refresh(r)
    \/ \E r \in Rows : action_open_selected(r) /\ current_dir' = current_dir
    \/ action_select_all
    \/ action_clear_selection

\* The selection list is after the step what it was before: the same
\* objects, unchanged, with the same paths in the same order.
SelectionKept ==
    /\ selected_files' = selected_files
    /\ SelectionOrder' = SelectionOrder
    /\ \A i \in 1..Len(selected_files) :
           items'[selected_files[i]] = items[selected_files[i]]

\* C23: search, refresh and navigation leave the selection list as it is,
\* same objects with the same paths in the same order: a step that changes
\* the list is a toggle, select-all or clear step and is none of the
\* rendering steps.
C23_RenderKeepsSelection ==
    [][SelectionKept \/ (SelectionStep /\ ~RenderStep)]_vars

\* The listing of d is shown filtered (rows without the parent row) while
\* the selection holds c of d and then a of the home directory.
C23_Witness ==
    /\ current_dir = DirD
    /\ Len(table) >= 1
    /\ table[1] # ParentRow
    /\ SelectionOrder = <<FileC, FileA>>

\* C24: the listing of a directory other than home starts with the parent
\* row, and the listing of home has no parent row, whichever handler
\* rendered it.
C24_ParentRowFirst ==
    /\ current_dir # Home =>
           /\ Len(table) >= 1
           /\ table[1].label = ParentLabel
    /\ current_dir = Home =>
           \A i \in 1..Len(table) : table[i].label # ParentLabel

\* The names of the model in case-insensitive ascending order.
NameOrder == <<nm_a, nm_b, nm_c, nm_cs, nm_d, nm_h, nm_L>>

NameRank(n) == CHOOSE i \in 1..Len(NameOrder) : NameOrder[i] = n

\* The name a row shows after the icon and the blank.
RowName(row) == SubSeq(row.label, 3, Len(row.label))

\* The rows of the table without the parent row.
Listed ==
    IF Len(table) >= 1 /\ table[1].label = ParentLabel THEN Tail(table) ELSE table

RowBefore(r1, r2) ==
    \/ r1.type = "Directory" /\ r2.type = "File"
    \/ /\ r1.type = r2.type
       /\ NameRank(RowName(r1)) < NameRank(RowName(r2))

ListedSorted == \A i \in 1..(Len(Listed) - 1) : RowBefore(Listed[i], Listed[i + 1])

\* The names of the model that contain the search text, case ignored.
Matching(q) ==
    CASE q = <<"C">> -> {nm_c, nm_cs}
      [] q = <<"l">> -> {nm_L}
      [] OTHER -> {nm_a, nm_b, nm_c, nm_cs, nm_d, nm_h, nm_L}

\* A search for q shows the entries of the directory whose names match q,
\* each once.
SearchShowsMatches ==
    \A q \in Queries :
        (current_dir' = current_dir /\ exists' = exists /\ action_search(q)) =>
            /\ {RowName(Listed'[i]) : i \in 1..Len(Listed')} =
                  {p[Len(p)] : p \in iterdir(current_dir, exists)} \cap Matching(q)
            /\ \A i, j \in 1..Len(Listed') :
                   RowName(Listed'[i]) = RowName(Listed'[j]) => i = j

\* C25: the rows of the table other than the parent row are ordered
\* directories before files and, within each, by name in case-insensitive
\* ascending order; a search shows exactly the entries of the directory
\* whose name contains the text, case ignored, in that order.
C25_SortedAndFiltered ==
    []ListedSorted /\ [][SearchShowsMatches]_vars

\* The listing of d filtered by "C": the rows c and "c ", and the listing
\* is not the unfiltered one.
C25_Witness ==
    /\ current_dir = DirD
    /\ Len(table) = 2
    /\ RowName(table[1]) = nm_c
    /\ RowName(table[2]) = nm_cs
    /\ exists = SelFiles

\* The export text of a list of outcomes: the line "<name>: <url>" of each
\* successful outcome whose file has a link, a newline between lines.
RECURSIVE ExportText(_, _)
ExportText(results, acc) ==
    IF results = <<>> THEN acc
    ELSE LET res  == Head(results)
             fi   == items[res.file]
             line == Chars(fi.name) \o <<":", " ">> \o Chars(fi.upload_url)
         IN  IF res.success /\ fi.upload_url # NoUrl
             THEN ExportText(Tail(results),
                             IF acc = <<>> THEN line ELSE acc \o <<"\n">> \o line)
             ELSE ExportText(Tail(results), acc)

\* The text occurs in the message, whole.
ShowsText(message, text) ==
    \E i \in 0..(Len(message) - Len(text)) :
        SubSeq(message, i + 1, i + Len(text)) = text

\* A copy with a working clipboard mechanism delivers the export text.
ExportDelivered ==
    \A k \in 1..Len(runs) : \A mech \in {"xclip", "pyperclip"} :
        (copy_urls_to_clipboard(k, mech) /\ ExportText(runs[k].results, <<>>) # <<>>) =>
            runs'[k].copied = <<ExportText(runs[k].results, <<>>)>>

\* A copy with every mechanism failing ends in a notification showing the
\* export text.
FailureShowsText ==
    \A k \in 1..Len(runs) :
        (copy_urls_to_clipboard(k, "none") /\ ExportText(runs[k].results, <<>>) # <<>>) =>
            /\ last_notify'.title = "Copy Failed"
            /\ ShowsText(last_notify'.message, ExportText(runs[k].results, <<>>))

\* C26: the text given to the clipboard is the newline-joined "<name>: <url>"
\* lines of the successful outcomes whose file has a link, in outcome order,
\* and when every clipboard mechanism fails a notification shows that text.
C26_ClipboardExport ==
    [][ExportDelivered /\ FailureShowsText]_vars

\* The delivery half alone.
C26_DeliveredOnly == [][ExportDelivered]_vars

\* a and b were uploaded, a answered with a link and b with a refusal, and
\* the text "a: https://buzzheavier.com/xyz9" was given to the clipboard.
C26_DeliveredWitness ==
    \E k \in 1..Len(runs) :
        /\ Len(runs[k].results) = 2
        /\ runs[k].results[1].success
        /\ ~runs[k].results[2].success
        /\ runs[k].copied = <<Chars(<<"a", ": ", "https://buzzheavier.com/", "x", "y", "z", "9">>)>>

\* A run is at its end: start_uploads has returned, the Close button is
\* enabled.
Terminal(run) == run.pc = "done" /\ ~run.close_disabled

\* C27: every run that is started reaches its terminal state.
C27_RunTerminates ==
    (runs # <<>>) ~> (\A k \in 1..Len(runs) : Terminal(runs[k]))

\* start_uploads of the run has begun and has not returned.
Running(run) == run.pc \in {"next", "pre", "await"}

\* The PUT requests in flight, over all runs.
RECURSIVE PutsInFlight(_)
PutsInFlight(rs) ==
    IF rs = <<>> THEN 0 ELSE Cardinality(Head(rs).inflight) + PutsInFlight(Tail(rs))

OnePutInFlight == PutsInFlight(runs) <= 1

\* C28: at most one run is Running and at most one PUT is in flight at any
\* time, also when the upload action is triggered during a run.
C28_SinglePipeline ==
    /\ Cardinality({k \in 1..Len(runs) : Running(runs[k])}) <= 1
    /\ OnePutInFlight

\* The paths of the queue of a run, in its order.
QueuePaths(run, its) == PathsOf(its, run.upload_files)

\* The run that exists before and after the step has the same queue: the
\* same objects with the same paths in the same order, and the same total.
QueueKept ==
    (Len(runs) = 1 /\ Len(runs') = 1) =>
        /\ runs'[1].upload_files = runs[1].upload_files
        /\ QueuePaths(runs'[1], items') = QueuePaths(runs[1], items)
        /\ runs'[1].progress[2] = runs[1].progress[2]

\* The total a run displays is the length of its queue, and each request
\* it has made is for the file at that position of the queue.
QueueShown ==
    \A k \in 1..Len(runs) :
        /\ runs[k].progress[2] = Len(runs[k].upload_files)
        /\ \A j \in 1..Len(runs[k].sent) :
               runs[k].sent[j].url =
                  <<"https://w.buzzheavier.com", "/">>
                     \o items[runs[k].upload_files[runs[k].sent[j].index]].name

\* C29: the queue of a run is the snapshot taken when the run was created:
\* no step, and so no toggle, select-all or clear during the run, changes
\* the files of the queue, their order or the total the run displays.
C29_QueueSnapshot ==
    []QueueShown /\ [][QueueKept]_vars

\* The second PUT of a run over a and b is in flight while the selection
\* list, cleared during the run, is empty.
C29_Witness ==
    /\ Len(runs) = 1
    /\ runs[1].pc = "await"
    /\ runs[1].current_index = 2
    /\ runs[1].progress = <<2, 2>>
    /\ QueuePaths(runs[1], items) = <<FileA, FileB>>
    /\ selected_files = <<>>

\* The message upload_file is to return for the file at path p, "" when
\* the file is to be put.
Refusal(p) ==
    IF Fifo(p) \in exists THEN "Not a valid file: "
    ELSE IF p \notin exists THEN "File does not exist: "
    ELSE IF Locked(p) \in exists THEN "Cannot read file: "
    ELSE ""

\* upload_file of run k, started in this step, refuses the file with the
\* message of its case and makes no request, or makes the request.
RefusedWithoutRequest ==
    \A k \in 1..Len(runs) :
        (k <= Len(runs') /\ runs[k].pc = "pre" /\ runs'[k].pc # "pre") =>
            LET id  == runs[k].upload_files[runs[k].current_index]
                why == Refusal(items[id].path)
            IN  IF why = ""
                THEN /\ Len(runs'[k].sent) = Len(runs[k].sent) + 1
                     /\ runs'[k].results = runs[k].results
                ELSE /\ runs'[k].sent = runs[k].sent
                     /\ runs'[k].inflight = runs[k].inflight
                     /\ runs'[k].puts = runs[k].puts
                     /\ Len(runs'[k].results) = Len(runs[k].results) + 1
                     /\ LET res == runs'[k].results[Len(runs'[k].results)]
                        IN  /\ res.file = id
                            /\ ~res.success
                            /\ res.message[1] = why

\* C30: upload_file makes no request for a file that is missing, is not a
\* regular file or cannot be read when it is called; the outcome is a
\* failure whose message starts with 'File does not exist', 'Not a valid
\* file' or 'Cannot read file' accordingly.
C30_NoRequestForBadFile ==
    [][RefusedWithoutRequest]_vars

\* A run over a has ended without a request, a having been unreadable when
\* upload_file was called.
C30_Witness ==
    \E k \in 1..Len(runs) :
        /\ runs[k].pc = "done"
        /\ runs[k].sent = <<>>
        /\ Len(runs[k].results) = 1
        /\ runs[k].results[1].message[1] = "Cannot read file: "

\* The object id holds a link after the step that it did not hold before.
LinkChanged(id) ==
    /\ id \in DOMAIN items'
    /\ items'[id].upload_url # NoUrl
    /\ id \in DOMAIN items => items'[id].upload_url # items[id].upload_url

\* Run k has recorded in this step an outcome of the object id.
Recorded(k, id, success) ==
    /\ k <= Len(runs')
    /\ Len(runs'[k].results) = Len(runs[k].results) + 1
    /\ NewOutcome(k).file = id
    /\ NewOutcome(k).success = success

\* C31: an object comes to hold a link, or another link, only in a step
\* that records a successful outcome of it, and it is no directory; a step
\* that records a failed outcome of an object leaves its link as it was.
C31_LinkOnlyFromSuccess ==
    [][/\ \A id \in DOMAIN items' :
             LinkChanged(id) =>
                 /\ ~items'[id].is_dir
                 /\ \E k \in 1..Len(runs) : Recorded(k, id, TRUE)
       /\ \A k \in 1..Len(runs) : \A id \in DOMAIN items :
             Recorded(k, id, FALSE) =>
                 /\ id \in DOMAIN items'
                 /\ items'[id].upload_url = items[id].upload_url]_vars

\* The file a holds the link of an earlier run while the run that has just
\* ended recorded a failure for it.
C31_Witness ==
    \E k \in 1..Len(runs) :
        /\ Len(runs[k].results) = 1
        /\ ~runs[k].results[1].success
        /\ items[runs[k].results[1].file].upload_url =
              <<"https://buzzheavier.com/", "x", "y", "z", "9">>

\* What the progress line of a run shows: the displayed index is never above
\* the total N, the total is the length of the queue; when upload_file is
\* about to be called or a PUT is in flight, the line is "j / N" with j one
\* more than the number of outcomes recorded.
ProgressShown ==
    \A k \in 1..Len(runs) :
        LET run == runs[k]
        IN  /\ run.progress[2] = Len(run.upload_files)
            /\ run.progress[1] \in 0..run.progress[2]
            /\ (run.pc = "pre" \/ run.inflight # {}) =>
                   /\ run.progress[1] = Len(run.results) + 1
                   /\ run.current_index = run.progress[1]

\* The displayed index of the run does not decrease, and the request a step
\* makes is for the queue position the line shows.
ProgressGrows ==
    (Len(runs) = 1 /\ Len(runs') = 1) =>
        /\ runs'[1].progress[1] >= runs[1].progress[1]
        /\ Len(runs'[1].sent) = Len(runs[1].sent) + 1 =>
               runs'[1].sent[Len(runs'[1].sent)].index = runs[1].progress[1]

\* C32: the progress line of a run with N files shows i+1 / N before the
\* file at index i is uploaded; the displayed index only increases, is the
\* number of recorded outcomes plus one while an upload is in flight, and
\* never exceeds N.
C32_ProgressDisplay ==
    []ProgressShown /\ [][ProgressGrows]_vars

\* The PUT of the second of two files is in flight, one outcome is recorded
\* and the line shows 2 / 2.
C32_Witness ==
    \E k \in 1..Len(runs) :
        /\ runs[k].inflight = {2}
        /\ Len(runs[k].results) = 1
        /\ runs[k].progress = <<2, 2>>

----------------------------------------------------------------------------
\* The marks of the table and the selection list

\* The fourth cell of row r holds a check mark, green or plain.
RowMarked(r) == table[r].mark # NoMark

\* The directory entry row r was rendered from: its name is the text of the
\* first cell after the icon and the blank, as add_row wrote it.
RowEntry(r) ==
    JoinPath(current_dir, SubSeq(table[r].label, 3, Len(table[r].label)))

\* C33: in every state of the main screen a row of a file shows the check
\* mark exactly when the path of its entry is in the selection list; the
\* parent row and the rows of directories never show it.
C33_MarksAgree ==
    \A r \in 1..Len(table) :
        IF table[r].label = ParentLabel \/ table[r].type = "Directory"
        THEN ~RowMarked(r)
        ELSE RowMarked(r) <=> RowEntry(r) \in SelPaths

\* Where Enter on row r has to lead: to the parent from the parent row, into
\* the directory of a directory row, nowhere from the row of a file.
OpenTarget(r) ==
    IF table[r].label = ParentLabel THEN Parent(current_dir)
    ELSE IF table[r].type = "Directory" THEN RowEntry(r)
    ELSE current_dir

\* C34: Enter moves to the parent directory only from the parent row, and
\* from the row of a sub-directory it enters that sub-directory, also when
\* the row is the first one of a listing without parent row.
C34_OpenEntersRow ==
    [][\A r \in 1..Len(table) :
           action_open_selected(r) => current_dir' = OpenTarget(r)]_vars

----------------------------------------------------------------------------
\* The links of a run

\* The link an outcome of the run brought: do_upload returns the message
\* "<name>: <url>" exactly when it has taken a file id from the answer.
OwnUrl(res) ==
    LET head == items[res.file].name \o <<": ", "https://buzzheavier.com/">>
    IN  IF /\ res.success
           /\ Len(res.message) > Len(head)
           /\ SubSeq(res.message, 1, Len(head)) = head
        THEN SubSeq(res.message, Len(items[res.file].name) + 2, Len(res.message))
        ELSE NoUrl

\* The lines "<name>: <url>" of the links the outcomes of a run brought.
OwnLines(results) ==
    LET own == SelectSeq(results, LAMBDA res : OwnUrl(res) # NoUrl)
    IN  [i \in 1..Len(own) |-> Chars(own[i].message)]

\* C35: the text a run gives to the clipboard holds the links obtained in
\* that run and no others: a file uploaded again and answered without a file
\* id is not exported with the link of an earlier run.
C35_ExportOwnLinks ==
    \A k \in 1..Len(runs) :
        runs[k].copied # <<>> =>
            runs[k].copied = <<join_lines(OwnLines(runs[k].results))>>

----------------------------------------------------------------------------
\* The api key and the Authorization header

\* C36: whatever the api key is, unset, empty, blank or not, a request
\* carries the Authorization header exactly when is_authenticated() holds
\* for the configuration it is made with.
C36_HeaderIffAuthenticated ==
    [][\A k \in 1..Len(runs) :
          (k <= Len(runs') /\ Len(runs'[k].sent) = Len(runs[k].sent) + 1) =>
              LET rq == runs'[k].sent[Len(runs'[k].sent)]
              IN  rq.headers # {} <=> is_authenticated(config)]_vars

====
